---------------------------- MODULE Spec2Model ----------------------------
(***************************************************************************)
(* Model of the chat forwarding service of src/main.go: the CORS           *)
(* middleware, the /health and /chat handlers, the global message store    *)
(* behind its sync.RWMutex, the Bedrock InvokeModel call and the           *)
(* extraction of the assistant text from the decoded response.             *)
(***************************************************************************)
EXTENDS Integers, Sequences, FiniteSets, TLC

(***************************************************************************)
(* Bounds and program constants                                            *)
(***************************************************************************)
\* number of HTTP requests served (each by its own goroutine)
NumReq == 2

StatusOK == 200
StatusBadRequest == 400
StatusMethodNotAllowed == 405
StatusInternalServerError == 500
\* status not yet written
NoStatus == 0

Req == 1..NumReq

Methods == {"POST", "GET", "DELETE", "OPTIONS"}
Paths == {"/chat", "/health"}

\* the message text the r-th request carries when its body is a ChatRequest
MessageOf(r) == IF r = 1 THEN "hi" ELSE IF r = 2 THEN "" ELSE "and then?"

\* request bodies, named by what json.Decoder.Decode meets in them:
\*   chat_request   {"message":"<message>"}
\*   wrong_type     {"message":1}
\*   syntax         {"message":
ChatRequestBody(msg) == [kind |-> "chat_request", message |-> msg]
WrongTypeBody == [kind |-> "wrong_type", message |-> ""]
SyntaxBody == [kind |-> "syntax", message |-> ""]
\* no body was read
NoBody == [kind |-> "unread", message |-> ""]
Bodies(r) == {ChatRequestBody(MessageOf(r)), WrongTypeBody, SyntaxBody}

\* errors InvokeModel can return (err.Error() texts)
GatewayErrors == {"operation error Bedrock Runtime: timeout", "context canceled"}

NoTextSentinel == "(no text returned)"

\* lines 129-131: the fixed generation parameters (the temperature 0.3 in
\* tenths)
MaxTokens == 1024
TemperatureTenths == 3
AnthropicVersion == "bedrock-2023-05-31"

\* the environment: "" is an unset variable (os.Getenv returns "")
EnvNames == {"MODEL_ID", "AWS_REGION", "PORT"}
EnvValue(n) ==
  CASE n = "MODEL_ID" -> "anthropic.claude-3-haiku"
    [] n = "AWS_REGION" -> "eu-west-1"
    [] OTHER -> "9090"
Envs == {e \in [EnvNames -> {"", "anthropic.claude-3-haiku", "eu-west-1", "9090"}] :
           \A n \in EnvNames : e[n] \in {"", EnvValue(n)}}
\* lines 69, 72, 185: the fallback defaults
DefaultModelID ==
  "arn:aws:bedrock:us-east-1:949940714686:inference-profile/global.anthropic.claude-sonnet-4-20250514-v1:0"
DefaultRegion == "us-east-1"
DefaultPort == "8080"

(***************************************************************************)
(* Decoded JSON values (encoding/json into interface{}):                   *)
(* string, float64, nil, []interface{}, map[string]interface{}.            *)
(***************************************************************************)
JStr(s) == [type |-> "string", str |-> s]
JNum == [type |-> "number"]
JNull == [type |-> "null"]
JArr(elems) == [type |-> "array", elems |-> elems]
JObj(fields) == [type |-> "object", fields |-> fields]

\* m[k] on a map[string]interface{}: nil when the key is missing
Index(m, k) == IF k \in DOMAIN m.fields THEN m.fields[k] ELSE JNull

\* the shapes a gateway response object is built from, one per top-level key
OutputTextVariants == {"absent", "empty", "text", "number"}
ChoicesVariants ==
  {"absent", "empty_array", "not_array", "elem_not_object", "empty_obj",
   "msg_text", "msg_content_empty", "msg_text_not_string", "choice_text",
   "msg_and_text", "msg_bad_and_text", "choice_empty_text"}
ContentVariants ==
  {"absent", "empty_array", "not_array", "elem_not_object", "text",
   "typed_text", "text_not_string", "two_elems"}

TextBlock(s) == JObj([k \in {"text"} |-> JStr(s)])
Message(contentValue) ==
  JObj([k \in {"message"} |-> JObj([c \in {"content"} |-> contentValue])])

OutputTextValue(v) ==
  CASE v = "empty" -> JStr("")
    [] v = "text" -> JStr("direct")
    [] OTHER -> JNum

ChoicesValue(v) ==
  CASE v = "empty_array" -> JArr(<<>>)
    [] v = "not_array" -> JStr("hi")
    [] v = "elem_not_object" -> JArr(<<JStr("hi")>>)
    [] v = "empty_obj" -> JArr(<<JObj(<<>>)>>)
    [] v = "msg_text" -> JArr(<<Message(JArr(<<TextBlock("hi")>>))>>)
    [] v = "msg_content_empty" -> JArr(<<Message(JArr(<<>>))>>)
    [] v = "msg_text_not_string" ->
         JArr(<<Message(JArr(<<JObj([k \in {"text"} |-> JNum])>>))>>)
    [] v = "choice_text" -> JArr(<<TextBlock("legacy")>>)
    [] v = "msg_and_text" ->
         JArr(<<JObj([k \in {"message", "text"} |->
                  IF k = "text" THEN JStr("legacy")
                  ELSE JObj([c \in {"content"} |-> JArr(<<TextBlock("hi")>>)])])>>)
    [] v = "msg_bad_and_text" ->
         JArr(<<JObj([k \in {"message", "text"} |->
                  IF k = "text" THEN JStr("legacy")
                  ELSE JObj([c \in {"content"} |-> JArr(<<>>)])])>>)
    [] OTHER -> JArr(<<TextBlock("")>>)

ContentValue(v) ==
  CASE v = "empty_array" -> JArr(<<>>)
    [] v = "not_array" -> JStr("hello")
    [] v = "elem_not_object" -> JArr(<<JStr("hello")>>)
    [] v = "text" -> JArr(<<TextBlock("hello")>>)
    [] v = "typed_text" ->
         JArr(<<JObj([k \in {"type", "text"} |->
                  IF k = "type" THEN JStr("text") ELSE JStr("hello")])>>)
    [] v = "text_not_string" -> JArr(<<JObj([k \in {"text"} |-> JNum])>>)
    [] OTHER -> JArr(<<TextBlock("hello"), TextBlock("second")>>)

\* a response object, described by the variant of each of its three keys
Shapes ==
  [output_text : OutputTextVariants, choices : ChoicesVariants,
   content : ContentVariants]

ShapeKeys(sh) ==
  {k \in {"output_text", "choices", "content"} : sh[k] # "absent"}

\* the map[string]interface{} that json.Unmarshal builds for the shape
Parsed(sh) ==
  JObj([k \in ShapeKeys(sh) |->
          CASE k = "output_text" -> OutputTextValue(sh.output_text)
            [] k = "choices" -> ChoicesValue(sh.choices)
            [] OTHER -> ContentValue(sh.content)])

(***************************************************************************)
(* extractAssistantText                                                    *)
(***************************************************************************)
NoMatch == [ok |-> FALSE, text |-> ""]
Match(s) == [ok |-> TRUE, text |-> s]

\* cb["text"].(string) on content[0], for content a []interface{} value
FirstBlockText(content) ==
  IF content.type = "array" /\ Len(content.elems) > 0
  THEN LET cb == content.elems[1] IN
       IF cb.type = "object"
       THEN LET t == Index(cb, "text") IN
            IF t.type = "string" THEN Match(t.str) ELSE NoMatch
       ELSE NoMatch
  ELSE NoMatch

\* FromChoices reading choices[0].text before choices[0].message
FromChoices_TextFirst(parsed) ==
  LET choices == Index(parsed, "choices") IN
  IF choices.type = "array" /\ Len(choices.elems) > 0
  THEN LET c0 == choices.elems[1] IN
       IF c0.type = "object"
       THEN LET msg == Index(c0, "message")
                viaMsg == IF msg.type = "object"
                          THEN FirstBlockText(Index(msg, "content"))
                          ELSE NoMatch
                t == Index(c0, "text")
            IN IF t.type = "string" THEN Match(t.str) ELSE viaMsg
       ELSE NoMatch
  ELSE NoMatch

\* the "choices" branch: choices[0].message.content[0].text, then
\* choices[0].text
FromChoices(parsed) ==
  LET choices == Index(parsed, "choices") IN
  IF choices.type = "array" /\ Len(choices.elems) > 0
  THEN LET c0 == choices.elems[1] IN
       IF c0.type = "object"
       THEN LET msg == Index(c0, "message")
                viaMsg == IF msg.type = "object"
                          THEN FirstBlockText(Index(msg, "content"))
                          ELSE NoMatch
                t == Index(c0, "text")
            IN IF viaMsg.ok THEN viaMsg
               ELSE IF t.type = "string" THEN Match(t.str) ELSE NoMatch
       ELSE NoMatch
  ELSE NoMatch

\* FromContent reading the last block of the array instead of the first
FromContent_LastBlock(parsed) ==
  LET content == Index(parsed, "content") IN
  IF content.type = "array" /\ Len(content.elems) > 0
  THEN FirstBlockText(JArr(<<content.elems[Len(content.elems)]>>))
  ELSE NoMatch

\* the top-level "content" branch
FromContent(parsed) == FirstBlockText(Index(parsed, "content"))

\* extractAssistantText probing the top-level content before choices
extractAssistantText_ContentFirst(parsed) ==
  LET ot == Index(parsed, "output_text")
      viaChoices == FromChoices(parsed)
      viaContent == FromContent(parsed)
  IN IF ot.type = "string" /\ ot.str # "" THEN ot.str
     ELSE IF viaContent.ok THEN viaContent.text
     ELSE IF viaChoices.ok THEN viaChoices.text
     ELSE ""

extractAssistantText(parsed) ==
  LET ot == Index(parsed, "output_text")
      viaChoices == FromChoices(parsed)
      viaContent == FromContent(parsed)
  IN IF ot.type = "string" /\ ot.str # "" THEN ot.str
     ELSE IF viaChoices.ok THEN viaChoices.text
     ELSE IF viaContent.ok THEN viaContent.text
     ELSE ""


(***************************************************************************)
(* Request and response bytes                                              *)
(***************************************************************************)
\* json.NewDecoder(r.Body).Decode(&cr) with cr a ChatRequest
DecodeChatRequest(b) ==
  CASE b.kind = "chat_request" -> [err |-> "", Message |-> b.message]
    [] b.kind = "wrong_type" ->
         [err |-> "json: cannot unmarshal number into Go struct field ChatRequest.message of type string",
          Message |-> ""]
    [] OTHER -> [err |-> "unexpected EOF", Message |-> ""]

EmptyShape == [output_text |-> "absent", choices |-> "absent", content |-> "absent"]
HelloShape == [output_text |-> "absent", choices |-> "absent", content |-> "text"]

\* response bodies the gateway returns to the served handler:
\* kind "object" is the JSON object of the shape, "null" the literal null,
\* "array" the text [], "invalid" bytes that are not JSON
ObjectBody(sh) == [kind |-> "object", shape |-> sh]
OtherBody(k) == [kind |-> k, shape |-> EmptyShape]
ResponseBodies ==
  {ObjectBody(HelloShape), ObjectBody(EmptyShape),
   OtherBody("null"), OtherBody("array"), OtherBody("invalid")}

\* Unmarshal accepting a JSON array as if it were an empty object
Unmarshal_AcceptsArray(raw) ==
  CASE raw.kind = "object" -> [err |-> "", parsed |-> Parsed(raw.shape)]
    [] raw.kind \in {"null", "array"} -> [err |-> "", parsed |-> JObj(<<>>)]
    [] OTHER ->
         [err |-> "invalid character 'x' looking for beginning of value",
          parsed |-> JObj(<<>>)]

\* json.Unmarshal(out.Body, &parsed) with parsed a map[string]interface{}:
\* null leaves the map nil and is no error
Unmarshal(raw) ==
  CASE raw.kind = "object" -> [err |-> "", parsed |-> Parsed(raw.shape)]
    [] raw.kind = "null" -> [err |-> "", parsed |-> JObj(<<>>)]
    [] raw.kind = "array" ->
         [err |-> "json: cannot unmarshal array into Go value of type map[string]interface {}",
          parsed |-> JObj(<<>>)]
    [] OTHER ->
         [err |-> "invalid character 'x' looking for beginning of value",
          parsed |-> JObj(<<>>)]

\* AssistantText without the substitution of the sentinel
AssistantText_NoSentinel(parsed) == extractAssistantText(parsed)

\* lines 158-161: the extracted text, or the sentinel when it is empty
AssistantText(parsed) ==
  LET assistantText == extractAssistantText(parsed) IN
  IF assistantText = "" THEN NoTextSentinel ELSE assistantText

\* the outcome of a gateway call, as the handler sees it
NoOutcome == [kind |-> "none", err |-> "", body |-> OtherBody("invalid")]
ErrorOutcome(e) == [kind |-> "error", err |-> e, body |-> OtherBody("invalid")]
BodyOutcome(raw) == [kind |-> "body", err |-> "", body |-> raw]

UserMessage(content) == [Role |-> "user", Content |-> content]
AssistantMessage(content) == [Role |-> "assistant", Content |-> content]

\* one element of messagesPayload
inMessage(m) ==
  [role |-> m.Role, content |-> <<[type |-> "text", text |-> m.Content]>>]

\* lines 127-132: reqBody
reqBody(msgs) ==
  [messages |-> msgs, max_tokens |-> MaxTokens,
   temperature |-> TemperatureTenths, anthropic_version |-> AnthropicVersion]

\* lines 135-139: the InvokeModelInput
InvokeModelInput(msgs, model) ==
  [Body |-> reqBody(msgs), ModelId |-> model, ContentType |-> "application/json"]
\* no input built
NoInput ==
  [Body |-> [messages |-> <<>>, max_tokens |-> 0, temperature |-> 0,
             anthropic_version |-> ""],
   ModelId |-> "", ContentType |-> ""]

\* json.Marshal(ChatResponse{Response: text})
MarshalChatResponse(text) == <<"{\"response\":\"", text, "\"}">>

(***************************************************************************)
(* State                                                                   *)
(***************************************************************************)
VARIABLES
  store,          \* store.m
  writer,         \* the request holding store.Lock(), 0 when none
  readers,        \* the requests holding store.RLock()
  pc,             \* where each request's goroutine stands
  method, path, body,   \* the request as received
  cr,             \* the decoded ChatRequest.Message
  messagesPayload,      \* the history copied for the gateway
  input,          \* the InvokeModelInput handed to br.InvokeModel
  outcome,        \* what InvokeModel returned
  assistantText,
  status, respBody,     \* what was written to the ResponseWriter
  routed,         \* how often the middleware passed the request on
  owner,          \* owner[i]: the request that appended store[i]
  calls,          \* the requests in the order of their InvokeModel calls
  shape, extracted, xpc, \* extraction of one response object on its own
  env,            \* the environment of the process
  modelID, region, port,  \* the configuration main works with
  proc,           \* "starting", "serving" or "exited"
  fatal           \* what made main exit: "none", "config" or "listen"

vars ==
  <<store, writer, readers, pc, method, path, body, cr, messagesPayload,
    input, outcome, assistantText, status, respBody, routed, owner, calls,
    shape, extracted, xpc, env, modelID, region, port, proc, fatal>>

lockVars == <<writer, readers>>
extractVars == <<shape, extracted, xpc>>
startVars == <<env, modelID, region, port, proc, fatal>>
\* what no step of a request handler changes
sideVars == <<extractVars, startVars>>
requestVars == <<method, path, body>>

ServerInit ==
  /\ store = <<>>
  /\ writer = 0
  /\ readers = {}
  /\ pc = [r \in Req |-> "idle"]
  /\ method = [r \in Req |-> ""]
  /\ path = [r \in Req |-> ""]
  /\ body = [r \in Req |-> NoBody]
  /\ cr = [r \in Req |-> ""]
  /\ messagesPayload = [r \in Req |-> <<>>]
  /\ input = [r \in Req |-> NoInput]
  /\ outcome = [r \in Req |-> NoOutcome]
  /\ assistantText = [r \in Req |-> ""]
  /\ status = [r \in Req |-> NoStatus]
  /\ respBody = [r \in Req |-> <<>>]
  /\ routed = [r \in Req |-> 0]
  /\ owner = <<>>
  /\ calls = <<>>

\* main has come to srv.ListenAndServe() with the environment e
Serving(e) ==
  /\ env = e
  /\ modelID = (IF e["MODEL_ID"] = "" THEN DefaultModelID ELSE e["MODEL_ID"])
  /\ region = (IF e["AWS_REGION"] = "" THEN DefaultRegion ELSE e["AWS_REGION"])
  /\ port = (IF e["PORT"] = "" THEN DefaultPort ELSE e["PORT"])
  /\ proc = "serving"
  /\ fatal = "none"

Init ==
  /\ ServerInit
  /\ shape = EmptyShape
  /\ extracted = ""
  /\ xpc = "off"
  /\ Serving([n \in EnvNames |-> EnvValue(n)])

\* w.WriteHeader(code) and the body written, then return from the handler
\* (its locals messagesPayload and input end with it)
Reply(r, code, b) ==
  /\ status' = [status EXCEPT ![r] = code]
  /\ respBody' = [respBody EXCEPT ![r] = b]
  /\ messagesPayload' = [messagesPayload EXCEPT ![r] = <<>>]
  /\ input' = [input EXCEPT ![r] = NoInput]
  /\ pc' = [pc EXCEPT ![r] = "done"]

\* the request r is method m on path p
Received(r, m, p) ==
  /\ method' = [method EXCEPT ![r] = m]
  /\ path' = [path EXCEPT ![r] = p]

(***************************************************************************)
(* The /chat handler up to its first store.Lock(), lines 93-102:           *)
(* method check and body decode                                            *)
(***************************************************************************)
\* ChatHandler rejecting only GET instead of every method but POST
ChatHandler_RejectsOnlyGet(r, m) ==
  IF m = "GET"
  THEN /\ Reply(r, StatusMethodNotAllowed, <<"only POST">>)
       /\ UNCHANGED <<body, cr>>
  ELSE \E b \in Bodies(r) :
         LET d == DecodeChatRequest(b) IN
         /\ body' = [body EXCEPT ![r] = b]
         /\ IF d.err # ""
            THEN /\ Reply(r, StatusBadRequest, <<"bad request: ", d.err>>)
                 /\ UNCHANGED cr
            ELSE /\ cr' = [cr EXCEPT ![r] = d.Message]
                 /\ pc' = [pc EXCEPT ![r] = "lock_user"]
                 /\ UNCHANGED <<status, respBody, messagesPayload, input>>

\* ChatHandler writing the 400 without returning after a decode error
ChatHandler_NoReturnAfter400(r, m) ==
  IF m # "POST"
  THEN /\ Reply(r, StatusMethodNotAllowed, <<"only POST">>)
       /\ UNCHANGED <<body, cr>>
  ELSE \E b \in Bodies(r) :
         LET d == DecodeChatRequest(b) IN
         /\ body' = [body EXCEPT ![r] = b]
         /\ cr' = [cr EXCEPT ![r] = d.Message]
         /\ pc' = [pc EXCEPT ![r] = "lock_user"]
         /\ IF d.err # ""
            THEN /\ status' = [status EXCEPT ![r] = StatusBadRequest]
                 /\ respBody' = [respBody EXCEPT ![r] = <<"bad request: ", d.err>>]
            ELSE UNCHANGED <<status, respBody>>
         /\ UNCHANGED <<messagesPayload, input>>

ChatHandler(r, m) ==
  IF m # "POST"
  THEN /\ Reply(r, StatusMethodNotAllowed, <<"only POST">>)
       /\ UNCHANGED <<body, cr>>
  ELSE \E b \in Bodies(r) :
         LET d == DecodeChatRequest(b) IN
         /\ body' = [body EXCEPT ![r] = b]
         /\ IF d.err # ""
            THEN /\ Reply(r, StatusBadRequest, <<"bad request: ", d.err>>)
                 /\ UNCHANGED cr
            ELSE /\ cr' = [cr EXCEPT ![r] = d.Message]
                 /\ pc' = [pc EXCEPT ![r] = "lock_user"]
                 /\ UNCHANGED <<status, respBody, messagesPayload, input>>

\* HealthHandler answering GET only
HealthHandler_GetOnly(r) ==
  /\ IF method'[r] = "GET"
     THEN Reply(r, StatusOK, <<"ok">>)
     ELSE Reply(r, StatusMethodNotAllowed, <<"only GET">>)
  /\ UNCHANGED <<body, cr>>

\* the /health handler: w.Write([]byte("ok"))
HealthHandler(r) ==
  /\ Reply(r, StatusOK, <<"ok">>)
  /\ UNCHANGED <<body, cr>>

\* chatMux.ServeHTTP: dispatch on the path
ServeMux(r, m, p) ==
  /\ routed' = [routed EXCEPT ![r] = @ + 1]
  /\ IF p = "/health" THEN HealthHandler(r) ELSE ChatHandler(r, m)

(***************************************************************************)
(* corsMiddleware: a request arrives at handlerWithCORS; the handler runs  *)
(* to its response or to its first store.Lock()                            *)
(***************************************************************************)
\* corsMiddleware passing OPTIONS on to the router like any other method
corsMiddleware_NoPreflight(r) ==
  /\ pc[r] = "idle"
  /\ \E m \in Methods, p \in Paths :
       /\ Received(r, m, p)
       /\ ServeMux(r, m, p)
  /\ UNCHANGED <<store, lockVars, outcome, assistantText, owner, calls,
                 sideVars>>
corsMiddleware(r) ==
  /\ pc[r] = "idle"
  /\ \E m \in Methods, p \in Paths :
       /\ Received(r, m, p)
       /\ IF m = "OPTIONS"
          THEN /\ Reply(r, StatusOK, <<>>)
               /\ UNCHANGED <<routed, body, cr>>
          ELSE ServeMux(r, m, p)
  /\ UNCHANGED <<store, lockVars, outcome, assistantText, owner, calls,
                 sideVars>>

\* Lock granted while readers hold the lock
Lock_IgnoresReaders(r, from, to) ==
  /\ pc[r] = from
  /\ writer = 0
  /\ writer' = r
  /\ pc' = [pc EXCEPT ![r] = to]
  /\ UNCHANGED <<store, readers, requestVars, cr, messagesPayload, input, outcome,
                 assistantText, status, respBody, routed, owner, calls,
                 sideVars>>
\* store.Lock(): no other writer and no reader
Lock(r, from, to) ==
  /\ pc[r] = from
  /\ writer = 0
  /\ readers = {}
  /\ writer' = r
  /\ pc' = [pc EXCEPT ![r] = to]
  /\ UNCHANGED <<store, readers, requestVars, cr, messagesPayload, input, outcome,
                 assistantText, status, respBody, routed, owner, calls,
                 sideVars>>

\* AppendUnlock returning without store.Unlock()
AppendUnlock_NoUnlock(r, msg, from, to) ==
  /\ pc[r] = from
  /\ store' = Append(store, msg)
  /\ owner' = Append(owner, r)
  /\ pc' = [pc EXCEPT ![r] = to]
  /\ UNCHANGED <<lockVars, requestVars, cr, messagesPayload, input, outcome,
                 assistantText, status, respBody, routed, calls, sideVars>>
\* AppendUnlock putting the message at the head of store.m
AppendUnlock_Prepend(r, msg, from, to) ==
  /\ pc[r] = from
  /\ store' = <<msg>> \o store
  /\ owner' = <<r>> \o owner
  /\ writer' = 0
  /\ pc' = [pc EXCEPT ![r] = to]
  /\ UNCHANGED <<readers, requestVars, cr, messagesPayload, input, outcome,
                 assistantText, status, respBody, routed, calls, sideVars>>

\* store.m = append(store.m, msg); store.Unlock()
AppendUnlock(r, msg, from, to) ==
  /\ pc[r] = from
  /\ store' = Append(store, msg)
  /\ owner' = Append(owner, r)
  /\ writer' = 0
  /\ pc' = [pc EXCEPT ![r] = to]
  /\ UNCHANGED <<readers, requestVars, cr, messagesPayload, input, outcome,
                 assistantText, status, respBody, routed, calls, sideVars>>

\* line 104
LockUser(r) == Lock(r, "lock_user", "append_user")
\* AppendUser appending the user message twice
AppendUser_Twice(r) ==
  /\ pc[r] = "append_user"
  /\ store' = store \o <<UserMessage(cr[r]), UserMessage(cr[r])>>
  /\ owner' = owner \o <<r, r>>
  /\ writer' = 0
  /\ pc' = [pc EXCEPT ![r] = "rlock"]
  /\ UNCHANGED <<readers, requestVars, cr, messagesPayload, input, outcome,
                 assistantText, status, respBody, routed, calls, sideVars>>

\* lines 105-106
AppendUser(r) == AppendUnlock(r, UserMessage(cr[r]), "append_user", "rlock")

\* line 118, store.RLock(): no writer
RLock(r) ==
  /\ pc[r] = "rlock"
  /\ writer = 0
  /\ readers' = readers \cup {r}
  /\ pc' = [pc EXCEPT ![r] = "snapshot"]
  /\ UNCHANGED <<store, writer, requestVars, cr, messagesPayload, input, outcome,
                 assistantText, status, respBody, routed, owner, calls,
                 sideVars>>

\* Snapshot keeping the read lock: no store.RUnlock() before the gateway call
Snapshot_NoRUnlock(r) ==
  /\ pc[r] = "snapshot"
  /\ messagesPayload' =
       [messagesPayload EXCEPT ![r] = [i \in 1..Len(store) |-> inMessage(store[i])]]
  /\ pc' = [pc EXCEPT ![r] = "invoke"]
  /\ UNCHANGED <<store, lockVars, requestVars, cr, input, outcome,
                 assistantText, status, respBody, routed, owner, calls,
                 sideVars>>
\* Snapshot leaving the last message of store.m out of the payload
Snapshot_DropsLast(r) ==
  /\ pc[r] = "snapshot"
  /\ messagesPayload' =
       [messagesPayload EXCEPT
          ![r] = [i \in 1..(Len(store) - 1) |-> inMessage(store[i])]]
  /\ readers' = readers \ {r}
  /\ pc' = [pc EXCEPT ![r] = "invoke"]
  /\ UNCHANGED <<store, writer, requestVars, cr, input, outcome,
                 assistantText, status, respBody, routed, owner, calls,
                 sideVars>>
\* lines 119-125: the loop over store.m, then store.RUnlock()
Snapshot(r) ==
  /\ pc[r] = "snapshot"
  /\ messagesPayload' =
       [messagesPayload EXCEPT ![r] = [i \in 1..Len(store) |-> inMessage(store[i])]]
  /\ readers' = readers \ {r}
  /\ pc' = [pc EXCEPT ![r] = "invoke"]
  /\ UNCHANGED <<store, writer, requestVars, cr, input, outcome,
                 assistantText, status, respBody, routed, owner, calls,
                 sideVars>>

\* lines 127-141: the payload is marshalled and br.InvokeModel is called
InvokeModel(r) ==
  /\ pc[r] = "invoke"
  /\ input' = [input EXCEPT ![r] = InvokeModelInput(messagesPayload[r], modelID)]
  /\ calls' = Append(calls, r)
  /\ pc' = [pc EXCEPT ![r] = "waiting"]
  /\ UNCHANGED <<store, lockVars, requestVars, cr, messagesPayload, outcome,
                 assistantText, status, respBody, routed, owner, sideVars>>

\* InvokeError taking the request's user message back out of the store
InvokeError_Rollback(r) ==
  /\ pc[r] = "waiting"
  /\ \E e \in GatewayErrors :
       /\ outcome' = [outcome EXCEPT ![r] = ErrorOutcome(e)]
       /\ Reply(r, StatusInternalServerError, <<"model error: ", e>>)
  /\ LET keep == {i \in DOMAIN store : ~(owner[i] = r /\ store[i].Role = "user")}
         pos(k) == CHOOSE i \in keep : Cardinality({j \in keep : j <= i}) = k
     IN /\ store' = [k \in 1..Cardinality(keep) |-> store[pos(k)]]
        /\ owner' = [k \in 1..Cardinality(keep) |-> owner[pos(k)]]
  /\ UNCHANGED <<lockVars, requestVars, cr, assistantText, routed, calls,
                 sideVars>>

\* InvokeError calling the gateway again instead of answering
InvokeError_Retry(r) ==
  /\ pc[r] = "waiting"
  /\ \E e \in GatewayErrors :
       outcome' = [outcome EXCEPT ![r] = ErrorOutcome(e)]
  /\ Len(calls) < 2 * NumReq
  /\ calls' = Append(calls, r)
  /\ UNCHANGED <<store, lockVars, pc, requestVars, cr, messagesPayload, input,
                 assistantText, status, respBody, routed, owner, sideVars>>
\* lines 142-146: InvokeModel returned an error
InvokeError(r) ==
  /\ pc[r] = "waiting"
  /\ \E e \in GatewayErrors :
       /\ outcome' = [outcome EXCEPT ![r] = ErrorOutcome(e)]
       /\ Reply(r, StatusInternalServerError, <<"model error: ", e>>)
  /\ UNCHANGED <<store, lockVars, requestVars, cr, assistantText, routed,
                 owner, calls, sideVars>>

\* the bodies the gateway answers with: the object of the shape under study
\* when one is, else any of ResponseBodies
GatewayBodies ==
  IF xpc = "served" THEN {ObjectBody(shape)} ELSE ResponseBodies

\* lines 148-161: InvokeModel returned a body; it is decoded and the
\* assistant text extracted
InvokeReturn(r) ==
  /\ pc[r] = "waiting"
  /\ \E raw \in GatewayBodies :
       LET u == Unmarshal(raw) IN
       /\ outcome' = [outcome EXCEPT ![r] = BodyOutcome(raw)]
       /\ IF u.err # ""
          THEN /\ Reply(r, StatusInternalServerError,
                        <<"failed to parse model response">>)
               /\ UNCHANGED assistantText
          ELSE /\ assistantText' =
                    [assistantText EXCEPT ![r] = AssistantText(u.parsed)]
               /\ pc' = [pc EXCEPT ![r] = "lock_assistant"]
               /\ UNCHANGED <<status, respBody, messagesPayload, input>>
  /\ UNCHANGED <<store, lockVars, requestVars, cr, routed, owner, calls,
                 sideVars>>

\* line 163
LockAssistant(r) == Lock(r, "lock_assistant", "append_assistant")
\* AppendAssistant releasing the lock without appending the reply
AppendAssistant_Skip(r) ==
  /\ pc[r] = "append_assistant"
  /\ writer' = 0
  /\ pc' = [pc EXCEPT ![r] = "respond"]
  /\ UNCHANGED <<store, owner, readers, requestVars, cr, messagesPayload, input,
                 outcome, assistantText, status, respBody, routed, calls,
                 sideVars>>
\* lines 164-165
AppendAssistant(r) ==
  AppendUnlock(r, AssistantMessage(assistantText[r]), "append_assistant",
               "respond")

\* Respond not waiting for the assistant message to be appended
Respond_Early(r) ==
  /\ pc[r] \in {"lock_assistant", "respond"}
  /\ Reply(r, StatusOK, MarshalChatResponse(assistantText[r]))
  /\ UNCHANGED <<store, lockVars, requestVars, cr, outcome, assistantText,
                 routed, owner, calls, sideVars>>
\* lines 168-177
Respond(r) ==
  /\ pc[r] = "respond"
  /\ Reply(r, StatusOK, MarshalChatResponse(assistantText[r]))
  /\ UNCHANGED <<store, lockVars, requestVars, cr, outcome, assistantText,
                 routed, owner, calls, sideVars>>

\* the steps of the goroutine serving request r
Step(r) ==
  \/ corsMiddleware(r)
  \/ LockUser(r)
  \/ AppendUser(r)
  \/ RLock(r)
  \/ Snapshot(r)
  \/ InvokeModel(r)
  \/ InvokeError(r)
  \/ InvokeReturn(r)
  \/ LockAssistant(r)
  \/ AppendAssistant(r)
  \/ Respond(r)

Next == \E r \in Req : Step(r)

Spec == Init /\ [][Next]_vars

(***************************************************************************)
(* extractAssistantText on its own, over every response shape              *)
(***************************************************************************)
ExtractInit ==
  /\ ServerInit
  /\ shape \in Shapes
  /\ extracted = ""
  /\ xpc = "ready"
  /\ Serving([n \in EnvNames |-> EnvValue(n)])

Extract ==
  /\ xpc = "ready"
  /\ extracted' = extractAssistantText(Parsed(shape))
  /\ xpc' = "done"
  /\ UNCHANGED <<store, lockVars, pc, requestVars, cr, messagesPayload, input,
                 outcome, assistantText, status, respBody, routed, owner,
                 calls, shape, startVars>>

ExtractNext == Extract

SpecExtract == ExtractInit /\ [][ExtractNext]_vars

(***************************************************************************)
(* One request served, the gateway answering with the object of any shape  *)
(***************************************************************************)
ShapesInit ==
  /\ ServerInit
  /\ shape \in Shapes
  /\ extracted = ""
  /\ xpc = "served"
  /\ Serving([n \in EnvNames |-> EnvValue(n)])

ShapesNext == Step(1)

SpecShapes == ShapesInit /\ [][ShapesNext]_vars

(***************************************************************************)
(* main before it serves: the environment is read, the AWS configuration   *)
(* loaded and the server started, then one request is served               *)
(***************************************************************************)
\* the package variables are initialized from the environment e (lines 37-38)
Starting(e) ==
  /\ env = e
  /\ modelID = e["MODEL_ID"]
  /\ region = e["AWS_REGION"]
  /\ port = ""
  /\ proc = "starting"
  /\ fatal = "none"

StartupInit ==
  /\ ServerInit
  /\ shape = EmptyShape
  /\ extracted = ""
  /\ xpc = "off"
  /\ \E e \in Envs : Starting(e)

\* lines 67-79: the defaults of modelID and region, then
\* config.LoadDefaultConfig, which returns a configuration or an error
LoadConfig ==
  /\ proc = "starting"
  /\ modelID' = (IF modelID = "" THEN DefaultModelID ELSE modelID)
  /\ region' = (IF region = "" THEN DefaultRegion ELSE region)
  /\ \/ proc' = "configured" /\ fatal' = fatal
     \/ proc' = "exited" /\ fatal' = "config"
  /\ UNCHANGED <<store, lockVars, pc, requestVars, cr, messagesPayload, input,
                 outcome, assistantText, status, respBody, routed, owner,
                 calls, extractVars, env, port>>

\* Listen exiting when PORT is not set
Listen_FatalOnMissingPort ==
  /\ proc = "configured"
  /\ port' = env["PORT"]
  /\ IF env["PORT"] = ""
     THEN proc' = "exited" /\ fatal' = "env"
     ELSE \/ proc' = "serving" /\ fatal' = fatal
          \/ proc' = "exited" /\ fatal' = "listen"
  /\ UNCHANGED <<store, lockVars, pc, requestVars, cr, messagesPayload, input,
                 outcome, assistantText, status, respBody, routed, owner,
                 calls, extractVars, env, modelID, region>>

\* lines 183-195: the default of port, then srv.ListenAndServe(), which
\* serves or returns an error to log.Fatal
Listen ==
  /\ proc = "configured"
  /\ port' = (IF env["PORT"] = "" THEN DefaultPort ELSE env["PORT"])
  /\ \/ proc' = "serving" /\ fatal' = fatal
     \/ proc' = "exited" /\ fatal' = "listen"
  /\ UNCHANGED <<store, lockVars, pc, requestVars, cr, messagesPayload, input,
                 outcome, assistantText, status, respBody, routed, owner,
                 calls, extractVars, env, modelID, region>>

\* a request is served once the server listens
Serve == proc = "serving" /\ Step(1)

StartupNext == LoadConfig \/ Listen \/ Serve

SpecStartup == StartupInit /\ [][StartupNext]_vars
TypeOK ==
  /\ writer \in Req \cup {0}
  /\ readers \subseteq Req
  /\ Len(owner) = Len(store)
  /\ \A r \in Req : status[r] \in {NoStatus, StatusOK, StatusBadRequest,
                                   StatusMethodNotAllowed,
                                   StatusInternalServerError}


(***************************************************************************)
(* Vocabulary of the properties                                            *)
(***************************************************************************)
\* the positions in the store of the messages request r appended
Own(r) == {i \in DOMAIN store : owner[i] = r}
UserIdx(r) == {i \in Own(r) : store[i].Role = "user"}
AssistantIdx(r) == {i \in Own(r) : store[i].Role = "assistant"}

\* r is a POST /chat whose body decodes as a ChatRequest
IsChat(r) ==
  method[r] = "POST" /\ path[r] = "/chat" /\ body[r].kind = "chat_request"

\* r's gateway call was issued
Called(r) == \E i \in DOMAIN calls : calls[i] = r

\* r's gateway call returned an error / bytes that json.Unmarshal rejects /
\* bytes that json.Unmarshal accepts
CallFailed(r) == outcome[r].kind = "error"
ResponseRejected(r) ==
  outcome[r].kind = "body" /\ outcome[r].body.kind \in {"array", "invalid"}
ResponseAccepted(r) ==
  outcome[r].kind = "body" /\ outcome[r].body.kind \in {"object", "null"}

BeforeUserAppend == {"idle", "lock_user", "append_user"}
AfterAssistantAppend == {"respond", "done"}

\* r touched neither the store nor the gateway
NoEffect(r) == (\A i \in DOMAIN owner : owner[i] # r) /\ ~Called(r)

(***************************************************************************)
(* C1: a POST /chat request whose body decodes appends exactly one user    *)
(* message, carrying its message, before its gateway call is issued, and   *)
(* exactly one assistant message after the call succeeded and the response *)
(* decoded; it appends nothing else.                                       *)
(***************************************************************************)
C1_OneUserThenOneAssistant ==
  \A r \in Req :
    IsChat(r) =>
      LET users == UserIdx(r)
          assistants == AssistantIdx(r)
      IN /\ Cardinality(users) = (IF pc[r] \in BeforeUserAppend THEN 0 ELSE 1)
         /\ \A i \in users : store[i].Content = body[r].message
         /\ Called(r) => Cardinality(users) = 1
         /\ Cardinality(assistants) =
              (IF ResponseAccepted(r) /\ pc[r] \in AfterAssistantAppend
               THEN 1 ELSE 0)
         /\ \A i \in assistants : \A j \in users : j < i
         /\ Own(r) = users \cup assistants

C1_Witness ==
  \E r \in Req :
    /\ IsChat(r) /\ pc[r] = "done" /\ status[r] = StatusOK
    /\ Cardinality(UserIdx(r)) = 1 /\ Cardinality(AssistantIdx(r)) = 1

(***************************************************************************)
(* C2 as stated: every request to /chat with a method other than POST,     *)
(* OPTIONS included, is answered 405 and touches neither the store nor the *)
(* gateway.                                                                *)
(***************************************************************************)
C2_Original ==
  \A r \in Req :
    (pc[r] = "done" /\ path[r] = "/chat" /\ method[r] # "POST") =>
      status[r] = StatusMethodNotAllowed /\ NoEffect(r)

(***************************************************************************)
(* C2 amended: a request to /chat with a method other than POST and        *)
(* OPTIONS is answered 405; an OPTIONS request is answered 200 by the CORS *)
(* middleware and never reaches the handler; in both cases the store is    *)
(* unchanged and the gateway is not called by the request.                 *)
(***************************************************************************)
C2_NonPostRejected ==
  \A r \in Req :
    (pc[r] # "idle" /\ path[r] = "/chat" /\ method[r] # "POST") =>
      /\ pc[r] = "done"
      /\ NoEffect(r)
      /\ IF method[r] = "OPTIONS"
         THEN status[r] = StatusOK /\ routed[r] = 0
         ELSE status[r] = StatusMethodNotAllowed /\ respBody[r] = <<"only POST">>

C2_Witness ==
  \E r, q \in Req :
    /\ pc[r] = "done" /\ path[r] = "/chat" /\ method[r] = "DELETE"
    /\ status[r] = StatusMethodNotAllowed
    /\ pc[q] = "done" /\ path[q] = "/chat" /\ method[q] = "OPTIONS"

(***************************************************************************)
(* C3: a POST /chat whose body fails to decode is answered 400 and touches *)
(* neither the store nor the gateway.                                      *)
(***************************************************************************)
C3_BadBodyRejected ==
  \A r \in Req :
    (method[r] = "POST" /\ path[r] = "/chat"
       /\ body[r].kind \in {"wrong_type", "syntax"}) =>
      /\ pc[r] = "done"
      /\ status[r] = StatusBadRequest
      /\ NoEffect(r)

C3_Witness ==
  \E r, q \in Req :
    /\ pc[r] = "done" /\ body[r].kind = "syntax" /\ status[r] = StatusBadRequest
    /\ pc[q] = "done" /\ body[q].kind = "wrong_type"
    /\ store = <<>>

(***************************************************************************)
(* C4 as stated: in every reachable state each assistant reply sits        *)
(* directly after the user message of the request that produced it, and    *)
(* the user messages stand in the store in the order of their gateway      *)
(* calls.                                                                  *)
(***************************************************************************)
C4_StoreInCallOrder ==
  /\ \A i \in DOMAIN store :
       store[i].Role = "assistant" =>
         i > 1 /\ owner[i - 1] = owner[i] /\ store[i - 1].Role = "user"
  /\ \A j, k \in DOMAIN calls :
       j < k => \A a \in UserIdx(calls[j]) : \A b \in UserIdx(calls[k]) : a < b

(***************************************************************************)
(* C5 as stated: when the gateway call fails or the response bytes are not *)
(* a JSON object, the request is answered 500 and never 200.               *)
(***************************************************************************)
C5_Original ==
  \A r \in Req :
    (CallFailed(r)
       \/ (outcome[r].kind = "body" /\ outcome[r].body.kind # "object")) =>
      status[r] # StatusOK /\ (pc[r] = "done" => status[r] = StatusInternalServerError)

(***************************************************************************)
(* C5 amended: when the gateway call fails, or json.Unmarshal rejects the  *)
(* response bytes (not JSON, or a JSON value that is neither an object nor *)
(* null), the request is answered 500 and never 200.                       *)
(***************************************************************************)
C5_GatewayFailureIs500 ==
  \A r \in Req :
    (CallFailed(r) \/ ResponseRejected(r)) =>
      pc[r] = "done" /\ status[r] = StatusInternalServerError

C5_Witness ==
  \E r, q \in Req :
    /\ CallFailed(r) /\ status[r] = StatusInternalServerError
    /\ ResponseRejected(q) /\ status[q] = StatusInternalServerError

(***************************************************************************)
(* C6: a failed gateway call does not roll back the user message: once the *)
(* request has ended with the failure the store holds its user message and *)
(* no assistant message of it, and the payload of every request that       *)
(* appended its own user message later contains the unanswered user turn.  *)
(***************************************************************************)
C6_NoRollback ==
  \A r \in Req :
    (pc[r] = "done" /\ (CallFailed(r) \/ ResponseRejected(r))) =>
      LET users == UserIdx(r) IN
      /\ Cardinality(users) = 1
      /\ AssistantIdx(r) = {}
      /\ \A i \in users :
           /\ store[i] = UserMessage(body[r].message)
           /\ \A q \in Req :
                (pc[q] \in {"invoke", "waiting"}
                   /\ \E j \in UserIdx(q) : i < j) =>
                  /\ i \in DOMAIN messagesPayload[q]
                  /\ messagesPayload[q][i] = inMessage(UserMessage(body[r].message))

C6_Witness ==
  \E r, q \in Req :
    /\ pc[r] = "done" /\ CallFailed(r)
    /\ pc[q] = "waiting"
    /\ \E i \in UserIdx(r) : \E j \in UserIdx(q) :
         i < j /\ messagesPayload[q][i].role = "user"

(***************************************************************************)
(* C7 as stated: the body of the 500 response is generic: two requests     *)
(* whose gateway calls failed with two remote-call errors, or with two     *)
(* undecodable responses, get the same response body.                      *)
(***************************************************************************)
C7_GenericErrorBody ==
  \A r, q \in Req :
    (/\ status[r] = StatusInternalServerError
     /\ status[q] = StatusInternalServerError
     /\ \/ CallFailed(r) /\ CallFailed(q)
        \/ ResponseRejected(r) /\ ResponseRejected(q)) =>
      respBody[r] = respBody[q]

(***************************************************************************)
(* C8 as stated: a request to /health gets 200 with body "ok" for every    *)
(* method, OPTIONS included, and touches neither the store nor the         *)
(* gateway.                                                                *)
(***************************************************************************)
C8_Original ==
  \A r \in Req :
    (pc[r] = "done" /\ path[r] = "/health") =>
      status[r] = StatusOK /\ respBody[r] = <<"ok">> /\ NoEffect(r)

(***************************************************************************)
(* C8 amended: a request to /health gets status 200 for every method, in   *)
(* every state of the store and of the other requests; the /health handler *)
(* writes the body "ok" for every method except OPTIONS, which the CORS    *)
(* middleware answers with an empty body; the request never changes the    *)
(* store and never calls the gateway.                                      *)
(***************************************************************************)
C8_HealthAlwaysOk ==
  \A r \in Req :
    (pc[r] # "idle" /\ path[r] = "/health") =>
      /\ pc[r] = "done"
      /\ status[r] = StatusOK
      /\ respBody[r] = (IF method[r] = "OPTIONS" THEN <<>> ELSE <<"ok">>)
      /\ NoEffect(r)

C8_Witness ==
  \E r, q \in Req :
    /\ pc[r] = "done" /\ path[r] = "/health" /\ method[r] = "POST"
    /\ respBody[r] = <<"ok">>
    /\ pc[q] = "waiting" /\ store # <<>>

(***************************************************************************)
(* C9: the store is append-only: every step leaves it unchanged or adds    *)
(* one message at its end.                                                 *)
(***************************************************************************)
C9_AppendOnly ==
  [][\/ store' = store
     \/ /\ Len(store') = Len(store) + 1
        /\ SubSeq(store', 1, Len(store)) = store]_vars

C9_Witness == Len(store) >= 3

(***************************************************************************)
(* C10: for a response with no non-empty output_text and no usable choices *)
(* entry whose top-level content array starts with an object that has a    *)
(* string text field, extractAssistantText returns that text ("hello").    *)
(***************************************************************************)
ChoicesUnusable ==
  {"absent", "empty_array", "not_array", "elem_not_object", "empty_obj",
   "msg_content_empty", "msg_text_not_string"}
ContentWithText == {"text", "typed_text", "two_elems"}

C10_TopLevelContent ==
  (/\ xpc = "done"
   /\ shape.output_text # "text"
   /\ shape.choices \in ChoicesUnusable
   /\ shape.content \in ContentWithText) =>
    extracted = "hello"

C10_Witness ==
  xpc = "done" /\ shape = HelloShape /\ extracted = "hello"


(***************************************************************************)
(* C11: for a response with no non-empty output_text whose                 *)
(* choices[0].message.content[0] is an object with a string text field,    *)
(* extractAssistantText returns that text ("hi"), whatever choices[0].text *)
(* and the top-level content are.                                          *)
(***************************************************************************)
ChoicesWithMessageText == {"msg_text", "msg_and_text"}

C11_ChoicesMessageContent ==
  (/\ xpc = "done"
   /\ shape.output_text # "text"
   /\ shape.choices \in ChoicesWithMessageText) =>
    extracted = "hi"

C11_Witness ==
  /\ xpc = "done"
  /\ shape = [output_text |-> "absent", choices |-> "msg_text", content |-> "absent"]
  /\ extracted = "hi"

(***************************************************************************)
(* C13: extraction follows one fixed priority order: output_text (a        *)
(* non-empty string), then choices[0].message.content[0].text, then        *)
(* choices[0].text, then top-level content[0].text (each a string); the    *)
(* result is the text of the first of them that is there, and the empty    *)
(* string when none is.                                                    *)
(***************************************************************************)
\* what each candidate holds in a shape, read off the shape's variants
DirectCandidate(sh) ==
  IF sh.output_text = "text" THEN <<"direct">> ELSE <<>>
MessageCandidate(sh) ==
  IF sh.choices \in ChoicesWithMessageText THEN <<"hi">> ELSE <<>>
ChoiceTextCandidate(sh) ==
  IF sh.choices \in {"choice_text", "msg_and_text", "msg_bad_and_text"}
  THEN <<"legacy">>
  ELSE IF sh.choices = "choice_empty_text" THEN <<"">> ELSE <<>>
ContentCandidate(sh) ==
  IF sh.content \in ContentWithText THEN <<"hello">> ELSE <<>>

\* the candidates that are there, highest priority first
Candidates(sh) ==
  DirectCandidate(sh) \o MessageCandidate(sh) \o ChoiceTextCandidate(sh)
    \o ContentCandidate(sh)

C13_FixedPriority ==
  xpc = "done" =>
    extracted = (IF Candidates(shape) = <<>> THEN "" ELSE Head(Candidates(shape)))

C13_Witness ==
  /\ xpc = "done"
  /\ shape = [output_text |-> "empty", choices |-> "msg_bad_and_text",
              content |-> "text"]
  /\ Len(Candidates(shape)) = 2
  /\ extracted = "legacy"


(***************************************************************************)
(* C12: when the decoded response matches none of the recognized shapes    *)
(* (missing keys, empty arrays, wrongly typed fields, the empty object),   *)
(* the extractor returns the empty string, the handler takes the sentinel  *)
(* "(no text returned)" in its place, and the request ends with 200 and    *)
(* the sentinel both as the reply and as the stored assistant message.     *)
(***************************************************************************)
ContentUnusable ==
  {"absent", "empty_array", "not_array", "elem_not_object", "text_not_string"}

MatchesNoShape(sh) ==
  /\ sh.output_text # "text"
  /\ sh.choices \in ChoicesUnusable
  /\ sh.content \in ContentUnusable

C12_SentinelWhenNoShape ==
  \A r \in Req :
    (outcome[r].kind = "body" /\ outcome[r].body.kind = "object"
       /\ MatchesNoShape(outcome[r].body.shape)) =>
      /\ extractAssistantText(Parsed(outcome[r].body.shape)) = ""
      /\ assistantText[r] = NoTextSentinel
      /\ pc[r] \in {"lock_assistant", "append_assistant", "respond", "done"}
      /\ pc[r] \in AfterAssistantAppend =>
           \E i \in Own(r) : store[i] = AssistantMessage(NoTextSentinel)
      /\ pc[r] = "done" =>
           /\ status[r] = StatusOK
           /\ respBody[r] = MarshalChatResponse(NoTextSentinel)

C12_Witness ==
  /\ pc[1] = "done"
  /\ outcome[1].kind = "body"
  /\ outcome[1].body.shape =
       [output_text |-> "number", choices |-> "empty_array",
        content |-> "text_not_string"]
  /\ status[1] = StatusOK
  /\ store[2] = AssistantMessage(NoTextSentinel)


(***************************************************************************)
(* C14: the payload sent to the gateway carries as its messages the whole  *)
(* store as it was when the request took its snapshot, element by element  *)
(* (role, and one text block with the content), its own user message       *)
(* included, together with max_tokens 1024, temperature 0.3 and            *)
(* anthropic_version bedrock-2023-05-31; what is appended to the store     *)
(* after the snapshot does not change a payload already built.             *)
(***************************************************************************)
\* the payload element p is the store message s
SameMessage(p, s) ==
  /\ p.role = s.Role
  /\ Len(p.content) = 1
  /\ p.content[1].type = "text"
  /\ p.content[1].text = s.Content

HasPayload == {"invoke", "waiting"}

C14_PayloadOfSnapshot(r) ==
  pc[r] \in HasPayload =>
    /\ Len(messagesPayload[r]) <= Len(store)
    /\ \A i \in DOMAIN messagesPayload[r] :
         SameMessage(messagesPayload[r][i], store[i])
    /\ \E i \in UserIdx(r) :
         /\ i \in DOMAIN messagesPayload[r]
         /\ messagesPayload[r][i].content[1].text = cr[r]
    /\ pc[r] = "waiting" =>
         /\ input[r].Body.messages = messagesPayload[r]
         /\ input[r].Body.max_tokens = 1024
         /\ input[r].Body.temperature = TemperatureTenths
         /\ input[r].Body.anthropic_version = "bedrock-2023-05-31"

C14_PayloadStep(r) ==
  /\ (pc[r] = "snapshot" /\ pc'[r] = "invoke") =>
       Len(messagesPayload'[r]) = Len(store)
  /\ (pc[r] \in HasPayload /\ pc'[r] \in HasPayload) =>
       messagesPayload'[r] = messagesPayload[r]
  /\ (pc[r] = "waiting" /\ pc'[r] = "waiting") => input'[r] = input[r]

C14_PayloadIsTheStore ==
  /\ [](\A r \in Req : C14_PayloadOfSnapshot(r))
  /\ [][\A r \in Req : C14_PayloadStep(r)]_vars

C14_Witness ==
  \E r \in Req :
    /\ pc[r] = "waiting"
    /\ Len(messagesPayload[r]) = 2
    /\ Len(store) > Len(messagesPayload[r])
    /\ input[r].Body.messages = messagesPayload[r]
    /\ input[r].Body.max_tokens = MaxTokens


(***************************************************************************)
(* C15: the store is only touched under its lock, in the right mode: a     *)
(* request appends while holding the lock exclusively and iterates for its *)
(* snapshot while holding it shared; nobody appends while another request  *)
(* is inside its snapshot or its own append; and a request holds the lock  *)
(* nowhere else, so every lock taken is released on every path.            *)
(***************************************************************************)
Appending == {"append_user", "append_assistant"}

C15_LockHeld ==
  /\ \A r \in Req : (writer = r) <=> (pc[r] \in Appending)
  /\ \A r \in Req : (r \in readers) <=> (pc[r] = "snapshot")
  /\ writer # 0 => readers = {}

C15_LockedStep ==
  /\ store' # store =>
       /\ writer # 0
       /\ readers = {}
       /\ Len(store') = Len(store) + 1
       /\ owner'[Len(store')] = writer
       /\ \A q \in Req \ {writer} : pc[q] \notin Appending \cup {"snapshot"}
       /\ writer' = 0
  /\ \A r \in Req :
       (pc[r] = "snapshot" /\ pc'[r] # "snapshot") =>
         /\ r \in readers
         /\ writer = 0
         /\ r \notin readers'

C15_StoreUnderLock == []C15_LockHeld /\ [][C15_LockedStep]_vars

C15_Witness ==
  /\ writer = 1
  /\ pc[1] = "append_assistant"
  /\ pc[2] = "rlock"
  /\ Len(store) = 2


(***************************************************************************)
(* C16: the gateway is never called again for the same request: a chat     *)
(* request issues one call once it is a POST whose body decoded and it has *)
(* taken its snapshot, none when it is rejected with 405 or 400 (or is no  *)
(* chat request at all), and a failed call is followed by the 500          *)
(* response, not by another call.                                          *)
(***************************************************************************)
\* the number of gateway calls request r issued
NumCalls(r) == Cardinality({i \in DOMAIN calls : calls[i] = r})

BeforeCall ==
  {"idle", "lock_user", "append_user", "rlock", "snapshot", "invoke"}

C16_CallsOf(r) ==
  /\ NumCalls(r) <= 1
  /\ IsChat(r) => NumCalls(r) = (IF pc[r] \in BeforeCall THEN 0 ELSE 1)
  /\ ~IsChat(r) => NumCalls(r) = 0
  /\ (pc[r] = "done" /\ status[r] \in {StatusMethodNotAllowed, StatusBadRequest})
       => NumCalls(r) = 0
  /\ CallFailed(r) =>
       /\ pc[r] = "done"
       /\ status[r] = StatusInternalServerError
       /\ NumCalls(r) = 1

C16_CallStep(r) ==
  (pc[r] = "waiting" /\ outcome'[r].kind = "error") =>
    /\ calls' = calls
    /\ pc'[r] = "done"
    /\ status'[r] = StatusInternalServerError

C16_NoRetry ==
  /\ [](\A r \in Req : C16_CallsOf(r))
  /\ [][\A r \in Req : C16_CallStep(r)]_vars

C16_Witness ==
  \E r \in Req :
    /\ pc[r] = "done"
    /\ CallFailed(r)
    /\ status[r] = StatusInternalServerError
    /\ NumCalls(r) = 1
    /\ \E q \in Req : pc[q] = "done" /\ status[q] = StatusBadRequest
                        /\ NumCalls(q) = 0


(***************************************************************************)
(* C17, as stated: at startup a missing environment value (model           *)
(* identifier, region or port) is fatal; the process exits and never       *)
(* serves a request.                                                       *)
(***************************************************************************)
Missing == {n \in EnvNames : env[n] = ""}

C17_Original ==
  Missing # {} =>
    /\ proc # "serving"
    /\ \A r \in Req : pc[r] = "idle"

(***************************************************************************)
(* C17, amended: a missing environment value is not an error; its fallback *)
(* default (the inference-profile ARN, us-east-1, 8080) is taken in its    *)
(* place, the process goes on to serve and calls the gateway with the      *)
(* model identifier so chosen.  The process exits at startup only when the *)
(* AWS configuration cannot be loaded or the server cannot listen, and     *)
(* then it has served no request.                                          *)
(***************************************************************************)
WithDefault(value, default) == IF value = "" THEN default ELSE value

C17_DefaultsNotFatal ==
  /\ proc \in {"configured", "serving"} =>
       /\ fatal = "none"
       /\ modelID = WithDefault(env["MODEL_ID"], DefaultModelID)
       /\ region = WithDefault(env["AWS_REGION"], DefaultRegion)
  /\ proc = "serving" => port = WithDefault(env["PORT"], DefaultPort)
  /\ proc = "exited" => fatal \in {"config", "listen"}
  /\ proc # "serving" =>
       /\ \A r \in Req : pc[r] = "idle"
       /\ store = <<>>
       /\ calls = <<>>
  /\ \A r \in Req :
       pc[r] = "waiting" =>
         input[r].ModelId = WithDefault(env["MODEL_ID"], DefaultModelID)

C17_Witness ==
  /\ Missing = EnvNames
  /\ proc = "serving"
  /\ port = "8080"
  /\ region = "us-east-1"
  /\ pc[1] = "waiting"
  /\ input[1].ModelId = DefaultModelID


(***************************************************************************)
(* C18: an OPTIONS request, to /chat or to /health, is answered by the     *)
(* CORS middleware with status 200 and is not passed to the router: it     *)
(* reaches no handler (no body is read, no handler text is written), adds  *)
(* nothing to the store and calls no gateway; a request with any other     *)
(* method is passed to the router exactly once.                            *)
(***************************************************************************)
Arrived(r) == pc[r] # "idle"

C18_OptionsStopsAtCors ==
  \A r \in Req :
    Arrived(r) =>
      IF method[r] = "OPTIONS"
      THEN /\ pc[r] = "done"
           /\ status[r] = StatusOK
           /\ respBody[r] = <<>>
           /\ routed[r] = 0
           /\ body[r] = NoBody
           /\ NoEffect(r)
      ELSE routed[r] = 1

C18_Witness ==
  /\ method[1] = "OPTIONS" /\ path[1] = "/chat" /\ pc[1] = "done"
  /\ method[2] = "OPTIONS" /\ path[2] = "/health" /\ pc[2] = "done"
  /\ status[1] = StatusOK /\ status[2] = StatusOK
  /\ routed = [r \in Req |-> 0]


(***************************************************************************)
(* C19: also when chat requests overlap, the history a request sends to    *)
(* the gateway ends with that request's own user message.                  *)
(***************************************************************************)
\* the last element of r's payload is the user message r appended
EndsWithOwnMessage(r) ==
  LET n == Len(messagesPayload[r]) IN
  /\ n > 0
  /\ n \in UserIdx(r)
  /\ messagesPayload[r][n] = inMessage(UserMessage(cr[r]))

C19_HistoryEndsWithOwnMessage ==
  \A r \in Req : pc[r] \in HasPayload => EndsWithOwnMessage(r)


(***************************************************************************)
(* C20: a request holds the store lock neither while it builds its gateway *)
(* call nor while the call is in flight, so a request waiting on the       *)
(* gateway blocks nobody: another request can append, take its snapshot    *)
(* and complete meanwhile.  No state is a deadlock on the store lock: a    *)
(* request that cannot take the lock is kept out by a holder whose next    *)
(* step releases it and can be taken.                                      *)
(***************************************************************************)
Holds(r) == writer = r \/ r \in readers

\* r stands at store.Lock() or store.RLock()
Acquire(r) == LockUser(r) \/ RLock(r) \/ LockAssistant(r)
AtLock(r) == pc[r] \in {"lock_user", "rlock", "lock_assistant"}
\* the step of r that ends with store.Unlock() or store.RUnlock()
Release(r) == AppendUser(r) \/ AppendAssistant(r) \/ Snapshot(r)

C20_NoLockAcrossCall ==
  /\ \A r \in Req : pc[r] \in HasPayload => ~Holds(r)
  /\ \A r \in Req : Holds(r) => ENABLED Release(r)
  /\ \A q \in Req :
       (AtLock(q) /\ ~ENABLED Acquire(q)) =>
         \E h \in Req \ {q} : Holds(h) /\ ENABLED Release(h)

C20_Witness ==
  /\ pc[1] = "waiting"
  /\ Len(messagesPayload[1]) = 1
  /\ pc[2] = "done"
  /\ status[2] = StatusOK
  /\ Len(store) = 3
  /\ AssistantIdx(2) = {3}


(***************************************************************************)
(* C21, as stated: in every reachable state the store holds at most as     *)
(* many assistant messages as user messages, every assistant message       *)
(* stands after the user message of the same request, the number of user   *)
(* messages is the number of requests that passed the method and body      *)
(* checks, and the number of assistant messages is the number of requests  *)
(* that reached the success path.                                          *)
(***************************************************************************)
NumUser == Cardinality({i \in DOMAIN store : store[i].Role = "user"})
NumAssistant == Cardinality({i \in DOMAIN store : store[i].Role = "assistant"})

\* r passed the method check and the body decode
PassedChecks(r) == Arrived(r) /\ IsChat(r)
\* r's gateway call succeeded and its response decoded
OnSuccessPath(r) == PassedChecks(r) /\ ResponseAccepted(r)

AssistantAfterOwnUser ==
  \A i \in DOMAIN store :
    store[i].Role = "assistant" =>
      \E j \in 1..(i - 1) : owner[j] = owner[i] /\ store[j].Role = "user"

C21_Original ==
  /\ NumAssistant <= NumUser
  /\ AssistantAfterOwnUser
  /\ NumUser = Cardinality({r \in Req : PassedChecks(r)})
  /\ NumAssistant = Cardinality({r \in Req : OnSuccessPath(r)})

(***************************************************************************)
(* C21, amended: in every reachable state the store holds at most as many  *)
(* assistant messages as user messages and every assistant message stands  *)
(* after the user message of the same request; the number of user          *)
(* messages is the number of requests that passed the method and body      *)
(* checks and have made their first append, and the number of assistant    *)
(* messages is the number of requests on the success path that have made   *)
(* their second append.  A request that passed the checks, or reached the  *)
(* success path, and still stands before its append (waiting for the       *)
(* lock or holding it) is not yet counted in the store; when no request    *)
(* stands there, the two numbers are those of the statement above.         *)
(***************************************************************************)
BeforeAssistantAppend == {"lock_assistant", "append_assistant"}

C21_Counts ==
  LET passed == {r \in Req : PassedChecks(r)}
      success == {r \in passed : ResponseAccepted(r)}
      users == NumUser
      assistants == NumAssistant
  IN /\ assistants <= users
     /\ AssistantAfterOwnUser
     /\ users = Cardinality({r \in passed : pc[r] \notin BeforeUserAppend})
     /\ assistants =
          Cardinality({r \in success : pc[r] \notin BeforeAssistantAppend})
     /\ (\A r \in Req : pc[r] \notin {"lock_user", "append_user"}) =>
          users = Cardinality(passed)
     /\ (\A r \in Req : pc[r] \notin BeforeAssistantAppend) =>
          assistants = Cardinality(success)

C21_Witness ==
  /\ pc[1] = "done" /\ status[1] = StatusOK /\ OnSuccessPath(1)
  /\ pc[2] = "lock_assistant" /\ OnSuccessPath(2)
  /\ NumUser = 2
  /\ NumAssistant = 1


(***************************************************************************)
(* C22: on the success path the reply in the 200 response is exactly the   *)
(* content of the assistant message the same request appended to the       *)
(* store, and the 200 response is sent only after that append.             *)
(***************************************************************************)
\* r is a chat request answered with 200
Succeeded(r) == PassedChecks(r) /\ pc[r] = "done" /\ status[r] = StatusOK

C22_ReplyOf(r) ==
  Succeeded(r) =>
    /\ Cardinality(AssistantIdx(r)) = 1
    /\ \A i \in AssistantIdx(r) :
         respBody[r] = MarshalChatResponse(store[i].Content)

\* the step that sends r's 200 finds r's assistant message in the store
C22_ReplyStep(r) ==
  (PassedChecks(r) /\ status[r] = NoStatus /\ status'[r] = StatusOK) =>
    /\ AssistantIdx(r) # {}
    /\ \A i \in AssistantIdx(r) :
         respBody'[r] = MarshalChatResponse(store[i].Content)
    /\ store' = store

C22_ReplyIsStoredMessage ==
  /\ [](\A r \in Req : C22_ReplyOf(r))
  /\ [][\A r \in Req : C22_ReplyStep(r)]_vars

C22_Witness ==
  /\ Succeeded(1) /\ Succeeded(2)
  /\ respBody[1] = MarshalChatResponse("hello")
  /\ respBody[2] = MarshalChatResponse(NoTextSentinel)
  /\ AssistantIdx(2) = {3}
  /\ AssistantIdx(1) = {4}
  /\ store[3].Content = NoTextSentinel
  /\ store[4].Content = "hello"


(***************************************************************************)
(* The server under fair scheduling: a goroutine that can run does run,    *)
(* the gateway call returns a response or an error, and a request that     *)
(* asks for the store lock gets it if the lock is free again and again     *)
(***************************************************************************)
\* the steps of r's goroutine that wait for nothing but the scheduler and
\* the gateway
Run(r) ==
  \/ AppendUser(r)
  \/ Snapshot(r)
  \/ InvokeModel(r)
  \/ InvokeError(r)
  \/ InvokeReturn(r)
  \/ AppendAssistant(r)
  \/ Respond(r)

Fairness == \A r \in Req : WF_vars(Run(r)) /\ SF_vars(Acquire(r))

SpecFair == Spec /\ Fairness

(***************************************************************************)
(* C23: every request to /chat is answered exactly once, with exactly one  *)
(* of the statuses 405, 400, 500 and 200; and when the gateway call        *)
(* returns a response or an error and the lock is granted fairly, every    *)
(* request that arrived reaches its response, whatever the others do.      *)
(***************************************************************************)
ChatStatuses ==
  {StatusMethodNotAllowed, StatusBadRequest, StatusInternalServerError,
   StatusOK}

\* r has its response exactly when its handler has returned
C23_Answered(r) ==
  /\ (status[r] # NoStatus) <=> (pc[r] = "done")
  /\ (pc[r] = "done" /\ path[r] = "/chat") => status[r] \in ChatStatuses

\* a response once written is not written again
C23_AnswerStep(r) ==
  status[r] # NoStatus =>
    /\ status'[r] = status[r]
    /\ respBody'[r] = respBody[r]
    /\ pc'[r] = "done"

C23_AnsweredOnceAndEventually ==
  /\ [](\A r \in Req : C23_Answered(r))
  /\ [][\A r \in Req : C23_AnswerStep(r)]_vars
  /\ \A r \in Req : Arrived(r) ~> (pc[r] = "done")

C23_Witness ==
  /\ pc[1] = "done" /\ path[1] = "/chat" /\ status[1] = StatusOK /\ IsChat(1)
  /\ pc[2] = "done" /\ path[2] = "/chat"
  /\ status[2] = StatusInternalServerError
  /\ Len(store) = 3

=============================================================================
